---- MODULE Spec2Model ----
(***************************************************************************)
(* Peripheral lifecycle of lpc82x-hal: the DMA controller                  *)
(* (src/src/dma/peripheral.rs), the USART driver (src/src/usart.rs) and    *)
(* the GPIO start-up of examples/gpio_simple.rs, over a model of the       *)
(* hardware registers they read and write.                                 *)
(***************************************************************************)
EXTENDS Integers, Sequences, FiniteSets, TLC

\* ------------------------------------------------------------------ bounds

\* Number of DMA channels of the modelled unit (one descriptor slot each).
NumChannels == 2
\* The linker may place the static descriptor table at any of these addresses.
MaxTableAddr == 1
\* Largest baud-rate prescaler value a clock source hands to USART::enable.
MaxPsc == 1
\* Largest byte value written to / received from the USART.
MaxByte == 1

Channel == 0 .. (NumChannels - 1)
TableAddrs == 1 .. MaxTableAddr
PscVals == 1 .. MaxPsc
Bytes == 1 .. MaxByte

\* The strings handed to write_str: up to MaxStrLen bytes out of 1 .. MaxChar.
MaxStrLen == 2
MaxChar == 2
Strs == UNION {[1 .. n -> 1 .. MaxChar] : n \in 0 .. MaxStrLen}

\* `as u8` keeps a value modulo 2^8.
U8 == 256

\* What the RXDAT field can hold with 8 data bits configured.
RxData == Bytes \cup {U8 - 1}
\* The static buffer a DMA transfer reads from.
Sources == {"buffer"}

Features == {"82x", "845"}
Periphs == {"DMA0", "USART0", "GPIO"}

VARIABLES
    feature,        \* the cargo feature the crate is built with (cfg(feature = ..))
    DESCRIPTORS,    \* address of the static descriptor table
    taken,          \* Peripherals::take() has handed the peripherals out
    dma,            \* the DMA<State> handle: state, srambase, channels
    usart,          \* the USART<UsartX, State> handle
    gpio,           \* the GPIO handle and the LED pin of the example
    hw,             \* clock gates, registers, status flags, descriptor memory
                    \* and the trace of effects of the last operation
    op,             \* the last completed operation
    arg,            \* the arguments it was called with
    ret,            \* what it returned
    ws              \* the call of Transmitter::write_str in progress, if any

vars == <<feature, DESCRIPTORS, taken, dma, usart, gpio, hw, op, arg, ret, ws>>

\* ------------------------------------------------------- hardware primitives

\* A handler starts with an empty effect trace.
Begin(h) == [h EXCEPT !.log = <<>>]

Event(kind, p, reg, val, old, clk) ==
    [kind |-> kind, periph |-> p, reg |-> reg, val |-> val, old |-> old, clk |-> clk]

\* An enable_clock that flips the gate instead of setting it.
enable_clock_toggle(h, p) ==
    [h EXCEPT !.clk[p] = ~h.clk[p],
              !.log = Append(@, Event("clock", p, "SYSAHBCLKCTRL", ~h.clk[p], h.clk[p], TRUE))]

\* syscon::Handle::enable_clock: the peripheral's clock gate is switched on.
enable_clock(h, p) ==
    [h EXCEPT !.clk[p] = TRUE,
              !.log = Append(@, Event("clock", p, "SYSAHBCLKCTRL", TRUE, h.clk[p], TRUE))]

\* syscon::Handle::disable_clock: the peripheral's clock gate is switched off.
disable_clock(h, p) ==
    [h EXCEPT !.clk[p] = FALSE,
              !.log = Append(@, Event("clock", p, "SYSAHBCLKCTRL", FALSE, h.clk[p], TRUE))]

\* reg.write(..) / reg.modify(..): the register of peripheral p takes val; the
\* trace keeps the value it held and the state of p's clock gate at the write.
reg_write(h, p, reg, val) ==
    [h EXCEPT !.regs[reg] = val,
              !.log = Append(@, Event("write", p, reg, val, h.regs[reg], h.clk[p]))]

\* A typestate transition of an owned part, recorded in the effect trace.
transition(h, p, what, to) ==
    [h EXCEPT !.log = Append(@, Event("transition", p, what, to, to, h.clk[p]))]

\* ------------------------------------------------------------ dma/peripheral.rs

\* Channels::new(descriptors): one handle per slot, all Disabled.
Channels_new == [c \in Channel |-> "Disabled"]

\* Channels<Disabled>::enable / Channels<Enabled>::disable cascade to every channel.
Channels_enable(chs) == [c \in DOMAIN chs |-> "Enabled"]
Channels_disable(chs) == [c \in DOMAIN chs |-> "Disabled"]

\* DMA::new.  `descriptors as *mut _ as u32` keeps every bit of the pointer:
\* addresses of the target are 32 bits wide.
DMA_new(descriptors) ==
    [state |-> "Disabled", srambase |-> descriptors, channels |-> Channels_new]

\* DMA::enable with the master-enable bit set before the table base is written.
DMA_enable_hw_ctrl_first(self, h) ==
    LET h1 == enable_clock(h, "DMA0")
        h2 == reg_write(h1, "DMA0", "CTRL", [enable |-> TRUE])
        h3 == reg_write(h2, "DMA0", "SRAMBASE", self.srambase)
    IN  transition(h3, "DMA0", "channels", "Enabled")

\* DMA::enable that never sets the master-enable bit.
DMA_enable_hw_no_master_enable(self, h) ==
    LET h1 == enable_clock(h, "DMA0")
        h2 == reg_write(h1, "DMA0", "SRAMBASE", self.srambase)
    IN  transition(h2, "DMA0", "channels", "Enabled")

\* The hardware effects of DMA<Disabled>::enable, in program order.
DMA_enable_hw(self, h) ==
    LET h1 == enable_clock(h, "DMA0")
        h2 == reg_write(h1, "DMA0", "SRAMBASE", self.srambase)
        h3 == reg_write(h2, "DMA0", "CTRL", [enable |-> TRUE])
    IN  transition(h3, "DMA0", "channels", "Enabled")

\* DMA::enable that hands the channel set on as it was.
DMA_enable_handle_channels_kept(self) ==
    [state |-> "Enabled", srambase |-> self.srambase, channels |-> self.channels]

\* The handle DMA<Disabled>::enable returns.
DMA_enable_handle(self) ==
    [state |-> "Enabled", srambase |-> self.srambase,
     channels |-> Channels_enable(self.channels)]

\* DMA::disable that leaves the clock gate on.
DMA_disable_hw_clock_left_on(self, h) ==
    transition(h, "DMA0", "channels", "Disabled")

\* DMA::disable that zeroes the table-base register before gating the clock.
DMA_disable_hw_zero_srambase(self, h) ==
    LET h1 == reg_write(h, "DMA0", "SRAMBASE", 0)
        h2 == disable_clock(h1, "DMA0")
    IN  transition(h2, "DMA0", "channels", "Disabled")

\* The hardware effects of DMA<Enabled>::disable.
DMA_disable_hw(self, h) ==
    LET h1 == disable_clock(h, "DMA0")
    IN  transition(h1, "DMA0", "channels", "Disabled")

\* DMA::disable that rebuilds the handle without its base address.
DMA_disable_handle_base_lost(self) ==
    [state |-> "Disabled", srambase |-> 0,
     channels |-> Channels_disable(self.channels)]

\* The handle DMA<Enabled>::disable returns.
DMA_disable_handle(self) ==
    [state |-> "Disabled", srambase |-> self.srambase,
     channels |-> Channels_disable(self.channels)]

\* DMA<State>::free: `self.dma`, the raw peripheral; the handle and the channel
\* set it owned are gone.
DMA_free_ret(self) == "DMA0"

DMA_free_handle(self) ==
    [state |-> "Freed", srambase |-> 0,
     channels |-> [c \in DOMAIN self.channels |-> "Freed"]]

\* DMA<State>::free that gates the clock off on the way out.
DMA_free_hw_clock_off(h) == disable_clock(h, "DMA0")

\* DMA<State>::free touches no register and no clock gate.
DMA_free_hw(h) == h

\* ---------------------------------------------------------------------- usart.rs

\* USART::new that starts in the Enabled state.
USART_new_enabled == [state |-> "Enabled"]

\* USART::new
USART_new == [state |-> "Disabled"]

\* The closure of `cfg.modify` in USART<Disabled>::enable: the fields it sets,
\* every other bit as it was read.
CFG_modify(r) ==
    [r EXCEPT !.enable = TRUE,
              !.datalen = "bit_8",
              !.paritysel = "no_parity",
              !.stoplen = "bit_1",
              !.ctsen = FALSE,
              !.syncen = "asynchronous_mode",
              !.loop = "normal",
              !.autoaddr = FALSE,
              !.rxpol = "standard",
              !.txpol = "standard"]

\* The closure of `ctl.modify` in USART<Disabled>::enable.
CTL_modify(r) ==
    [r EXCEPT !.txbrken = "normal",
              !.addrdet = FALSE,
              !.txdis = "enabled",
              !.autobaud = FALSE]

\* USART::enable that switches the clock on after its register writes.
USART_enable_hw_clock_last(h, psc) ==
    LET h1 == reg_write(h, "USART0", "BRG", psc)
        h2 == reg_write(h1, "USART0", "CFG", CFG_modify(h1.regs.CFG))
        h3 == reg_write(h2, "USART0", "CTL", CTL_modify(h2.regs.CTL))
    IN  enable_clock(h3, "USART0")

\* The hardware effects of USART<Disabled>::enable, in program order.
USART_enable_hw(h, psc) ==
    LET h1 == enable_clock(h, "USART0")
        h2 == reg_write(h1, "USART0", "BRG", psc)
        h3 == reg_write(h2, "USART0", "CFG", CFG_modify(h2.regs.CFG))
    IN  reg_write(h3, "USART0", "CTL", CTL_modify(h3.regs.CTL))

\* USART<Enabled>::disable that gates the DMA clock off along with its own.
USART_disable_hw_dma_too(h) == disable_clock(disable_clock(h, "DMA0"), "USART0")

\* The hardware effects of USART<Enabled>::disable.
USART_disable_hw(h) == disable_clock(h, "USART0")

\* USART<UsartX, State>::free: `self.usart`, the raw peripheral.
USART_free_ret(self) == "USART0"

\* USART<UsartX, State>::free touches no register and no clock gate.
USART_free_hw(h) == h

\* `x as u8`
AsU8(x) == x % U8

\* self.0.usart.rxdatstat.read(): the read hands out the receive data with its
\* framing, parity and noise flags and takes them out of the receiver: RXRDY
\* and the three flags drop.  The trace keeps what was read.
rxdatstat_read(h) ==
    [h EXCEPT !.rx = [@ EXCEPT !.rxrdy = FALSE, !.framerr = FALSE,
                               !.parityerr = FALSE, !.rxnoise = FALSE],
              !.log = Append(@, Event("read", "USART0", "RXDATSTAT",
                                      h.rx, h.rx, h.clk["USART0"]))]

\* Receiver::read: what it returns.  The overrun test is compiled in under
\* feature 82x only.
Receiver_read_ret(f, h) ==
    IF h.rx.rxbrk THEN [result |-> "WouldBlock"]
    ELSE IF f = "82x" /\ h.rx.overrunint THEN [result |-> "Overrun"]
    ELSE IF h.rx.rxrdy
         THEN IF h.rx.framerr THEN [result |-> "Framing"]
              ELSE IF h.rx.parityerr THEN [result |-> "Parity"]
              ELSE IF h.rx.rxnoise THEN [result |-> "Noise"]
              ELSE [result |-> "Ok", byte |-> AsU8(h.rx.rxdat)]
         ELSE [result |-> "WouldBlock"]

\* Receiver::read: its hardware effects.  STAT is read without effect;
\* RXDATSTAT is read once, on the path that found RXRDY set.
Receiver_read_hw(f, h) ==
    IF h.rx.rxbrk THEN h
    ELSE IF f = "82x" /\ h.rx.overrunint THEN h
    ELSE IF h.rx.rxrdy THEN rxdatstat_read(h)
    ELSE h

\* intenset.write(|w| w.<bit>().set_bit()): a one written to INTENSET sets the
\* bit of the interrupt-enable register, a one written to INTENCLR clears it.
intenset_write(h, bit) ==
    [h EXCEPT !.regs.INTEN = @ \cup {bit},
              !.log = Append(@, Event("write", "USART0", "INTENSET", {bit},
                                      h.regs.INTEN, h.clk["USART0"]))]

intenclr_write(h, bit) ==
    [h EXCEPT !.regs.INTEN = @ \ {bit},
              !.log = Append(@, Event("write", "USART0", "INTENCLR", {bit},
                                      h.regs.INTEN, h.clk["USART0"]))]

\* Transmitter::write: what it returns for the status it reads.
Transmitter_write_ret(h) ==
    IF ~h.stat.txrdy THEN "WouldBlock" ELSE "Ok"

\* Transmitter::write that stores the word without looking at TXRDY.
Transmitter_write_hw_unchecked(h, word) ==
    LET h1 == reg_write(h, "USART0", "TXDAT", word)
    IN  [h1 EXCEPT !.stat.txrdy = FALSE, !.stat.txidle = FALSE]

\* Transmitter::write: its hardware effects.  The transmitter takes the word
\* written to TXDAT: TXRDY and TXIDLE drop until the hardware raises them.
Transmitter_write_hw(h, word) ==
    IF ~h.stat.txrdy
    THEN h
    ELSE LET h1 == reg_write(h, "USART0", "TXDAT", word)
         IN  [h1 EXCEPT !.stat.txrdy = FALSE, !.stat.txidle = FALSE]

\* Transmitter::flush that tests TXRDY where it should test TXIDLE.
Transmitter_flush_txrdy(h) ==
    IF ~h.stat.txrdy THEN "WouldBlock" ELSE "Ok"

\* Transmitter::flush
Transmitter_flush(h) ==
    IF ~h.stat.txidle THEN "WouldBlock" ELSE "Ok"

\* <Transmitter as dma::Dest>::wait
Transmitter_wait(h) == Transmitter_flush(h)

\* <Transmitter as dma::Dest>::end_addr: the address of the TXDAT register.
Transmitter_end_addr == "USART0.TXDAT"

\* ------------------------------------------------------------- channel transfer

\* A transfer started on channel c towards the transmitter: the destination's
\* wait() is polled once; when it is busy nothing is written, otherwise the
\* descriptor slot of c is filled and the channel-enable bit of c is set.
start_transfer_ret(h) == Transmitter_wait(h)

\* A transfer that fills slot 0 and sets bit 0 whatever its channel is.
start_transfer_hw_slot0(h, c, source) ==
    IF Transmitter_wait(h) = "WouldBlock"
    THEN h
    ELSE LET h1 == [h EXCEPT !.table[0] =
                        [source |-> source, dest |-> Transmitter_end_addr]]
         IN  reg_write(h1, "DMA0", "ENABLESET0",
                       [x \in Channel |-> (x = 0) \/ h1.regs.ENABLESET0[x]])

start_transfer_hw(h, c, source) ==
    IF Transmitter_wait(h) = "WouldBlock"
    THEN h
    ELSE LET h1 == [h EXCEPT !.table[c] =
                        [source |-> source, dest |-> Transmitter_end_addr]]
         IN  reg_write(h1, "DMA0", "ENABLESET0",
                       [x \in Channel |-> (x = c) \/ h1.regs.ENABLESET0[x]])

\* ------------------------------------------------------------------ reset state

NoHandle == [state |-> "NotTaken"]

\* No Transmitter::write_str is running: the mainline is free to call the API.
NoCall == [pc |-> "idle", s |-> <<>>, sent |-> <<>>]

\* The program is single-threaded: an API call starts only when the previous
\* one has returned.
Mainline == ws.pc = "idle"

EmptySlot == [source |-> "none", dest |-> "none"]

ResetRegs ==
    [SRAMBASE |-> 0,
     CTRL |-> [enable |-> FALSE],
     ENABLESET0 |-> [c \in Channel |-> FALSE],
     BRG |-> 0,
     CFG |-> [enable |-> FALSE, datalen |-> "bit_7", paritysel |-> "no_parity",
              stoplen |-> "bit_1", ctsen |-> FALSE, syncen |-> "asynchronous_mode",
              loop |-> "normal", autoaddr |-> FALSE, rxpol |-> "standard",
              txpol |-> "standard"],
     CTL |-> [txbrken |-> "normal", addrdet |-> FALSE, txdis |-> "enabled",
              autobaud |-> FALSE],
     TXDAT |-> 0,
     INTEN |-> {}]

\* The receiver after reset: nothing received, no flag raised.
ResetRx ==
    [rxbrk |-> FALSE, overrunint |-> FALSE, rxrdy |-> FALSE,
     framerr |-> FALSE, parityerr |-> FALSE, rxnoise |-> FALSE, rxdat |-> 0]

Init ==
    /\ feature \in Features
    /\ DESCRIPTORS \in TableAddrs
    /\ taken = FALSE
    /\ dma = [state |-> "NotTaken", srambase |-> 0,
              channels |-> [c \in Channel |-> "NotTaken"]]
    /\ usart = NoHandle
    /\ gpio = [state |-> "NotTaken", led |-> "unconfigured"]
    /\ hw = [clk |-> [p \in Periphs |-> (p = "GPIO" /\ feature = "82x")],
             regs |-> ResetRegs,
             nvic |-> {},
             stat |-> [txrdy |-> TRUE, txidle |-> TRUE],
             rx |-> ResetRx,
             table |-> [c \in Channel |-> EmptySlot],
             log |-> <<>>]
    /\ op = "reset"
    /\ arg = "none"
    /\ ret = "none"
    /\ ws = NoCall

\* ---------------------------------------------------------------------- actions

\* Peripherals::take() that hands the peripherals out on every call.
Take_every_call ==
    /\ Mainline
    /\ op' = "Peripherals::take"
    /\ arg' = "none"
    /\ hw' = Begin(hw)
    /\ ret' = "Some"
    /\ taken' = TRUE
    /\ dma' = DMA_new(DESCRIPTORS)
    /\ usart' = USART_new
    /\ gpio' = [state |-> IF feature = "82x" THEN "Enabled" ELSE "Disabled",
                led |-> "unconfigured"]
    /\ UNCHANGED <<feature, DESCRIPTORS, ws>>

\* Peripherals::take(): the first call constructs every handle, later calls
\* return None.
Take ==
    /\ Mainline
    /\ op' = "Peripherals::take"
    /\ arg' = "none"
    /\ hw' = Begin(hw)
    /\ IF taken
       THEN /\ ret' = "None"
            /\ UNCHANGED <<taken, dma, usart, gpio>>
       ELSE /\ ret' = "Some"
            /\ taken' = TRUE
            /\ dma' = DMA_new(DESCRIPTORS)
            /\ usart' = USART_new
            /\ gpio' = [state |-> IF feature = "82x" THEN "Enabled" ELSE "Disabled",
                        led |-> "unconfigured"]
    /\ UNCHANGED <<feature, DESCRIPTORS, ws>>

DMA_enable ==
    /\ Mainline
    /\ dma.state = "Disabled"
    /\ hw' = DMA_enable_hw(dma, Begin(hw))
    /\ dma' = DMA_enable_handle(dma)
    /\ op' = "DMA::enable"
    /\ arg' = "none"
    /\ ret' = "Enabled"
    /\ UNCHANGED <<feature, DESCRIPTORS, taken, usart, gpio, ws>>

DMA_disable ==
    /\ Mainline
    /\ dma.state = "Enabled"
    /\ hw' = DMA_disable_hw(dma, Begin(hw))
    /\ dma' = DMA_disable_handle(dma)
    /\ op' = "DMA::disable"
    /\ arg' = "none"
    /\ ret' = "Disabled"
    /\ UNCHANGED <<feature, DESCRIPTORS, taken, usart, gpio, ws>>

\* A per-channel transfer towards the USART transmitter.
Channel_start_transfer ==
    /\ Mainline
    /\ usart.state = "Enabled"
    /\ \E c \in Channel, source \in Sources :
          /\ dma.channels[c] = "Enabled"
          /\ hw' = start_transfer_hw(Begin(hw), c, source)
          /\ arg' = [channel |-> c, source |-> source]
          /\ op' = "Channel::start_transfer"
          /\ ret' = [result |-> start_transfer_ret(hw), channel |-> c]
    /\ UNCHANGED <<feature, DESCRIPTORS, taken, dma, usart, gpio, ws>>

\* USART::enable offered on a handle in any typestate.
USART_enable_any_state ==
    /\ Mainline
    /\ usart.state \in {"Disabled", "Enabled"}
    /\ \E psc \in PscVals :
          /\ hw' = USART_enable_hw(Begin(hw), psc)
          /\ arg' = [psc |-> psc]
    /\ usart' = [state |-> "Enabled"]
    /\ op' = "USART::enable"
    /\ ret' = "Enabled"
    /\ UNCHANGED <<feature, DESCRIPTORS, taken, dma, gpio, ws>>

USART_enable ==
    /\ Mainline
    /\ usart.state = "Disabled"
    /\ \E psc \in PscVals :
          /\ hw' = USART_enable_hw(Begin(hw), psc)
          /\ arg' = [psc |-> psc]
    /\ usart' = [state |-> "Enabled"]
    /\ op' = "USART::enable"
    /\ ret' = "Enabled"
    /\ UNCHANGED <<feature, DESCRIPTORS, taken, dma, gpio, ws>>

USART_disable ==
    /\ Mainline
    /\ usart.state = "Enabled"
    /\ hw' = USART_disable_hw(Begin(hw))
    /\ usart' = [state |-> "Disabled"]
    /\ op' = "USART::disable"
    /\ arg' = "none"
    /\ ret' = "Disabled"
    /\ UNCHANGED <<feature, DESCRIPTORS, taken, dma, gpio, ws>>

\* USART<Enabled>::enable_interrupts: NVIC::unmask(UsartX::INTERRUPT)
USART_enable_interrupts ==
    /\ Mainline
    /\ usart.state = "Enabled"
    /\ hw' = [Begin(hw) EXCEPT !.nvic = @ \cup {"USART0"}]
    /\ op' = "USART::enable_interrupts"
    /\ arg' = "none"
    /\ ret' = "unit"
    /\ UNCHANGED <<feature, DESCRIPTORS, taken, dma, usart, gpio, ws>>

\* usart.rx().enable_rxrdy_interrupt() and its three siblings.
USART_interrupt_bit ==
    /\ Mainline
    /\ usart.state = "Enabled"
    /\ \/ /\ hw' = intenset_write(Begin(hw), "rxrdy")
          /\ op' = "Receiver::enable_rxrdy_interrupt"
       \/ /\ hw' = intenclr_write(Begin(hw), "rxrdy")
          /\ op' = "Receiver::disable_rxrdy_interrupt"
       \/ /\ hw' = intenset_write(Begin(hw), "txrdy")
          /\ op' = "Transmitter::enable_txrdy_interrupt"
       \/ /\ hw' = intenclr_write(Begin(hw), "txrdy")
          /\ op' = "Transmitter::disable_txrdy_interrupt"
    /\ arg' = "none"
    /\ ret' = "unit"
    /\ UNCHANGED <<feature, DESCRIPTORS, taken, dma, usart, gpio, ws>>

\* usart.tx().write(word)
Transmitter_write ==
    /\ Mainline
    /\ usart.state = "Enabled"
    /\ \E word \in Bytes :
          /\ hw' = Transmitter_write_hw(Begin(hw), word)
          /\ arg' = [word |-> word]
    /\ op' = "Transmitter::write"
    /\ ret' = Transmitter_write_ret(hw)
    /\ UNCHANGED <<feature, DESCRIPTORS, taken, dma, usart, gpio, ws>>

\* usart.tx().flush()
Transmitter_flush_call ==
    /\ Mainline
    /\ usart.state = "Enabled"
    /\ hw' = Begin(hw)
    /\ op' = "Transmitter::flush"
    /\ arg' = "none"
    /\ ret' = Transmitter_flush(hw)
    /\ UNCHANGED <<feature, DESCRIPTORS, taken, dma, usart, gpio, ws>>

\* The transmitter hardware: the holding register empties (TXRDY), then the
\* shift register does (TXIDLE); it runs only while the USART is clocked.
HwTxProgress ==
    /\ hw.clk["USART0"]
    /\ \/ /\ ~hw.stat.txrdy
          /\ hw' = [Begin(hw) EXCEPT !.stat.txrdy = TRUE]
       \/ /\ hw.stat.txrdy /\ ~hw.stat.txidle
          /\ hw' = [Begin(hw) EXCEPT !.stat.txidle = TRUE]
    /\ op' = "hardware"
    /\ arg' = "none"
    /\ ret' = "none"
    /\ UNCHANGED <<feature, DESCRIPTORS, taken, dma, usart, gpio, ws>>

\* The DMA hardware: an enabled channel with a filled slot moves a byte of its
\* source buffer to the transmitter when that asks for one.
HwDmaFeed ==
    /\ hw.clk["DMA0"] /\ hw.clk["USART0"]
    /\ hw.regs.CTRL.enable
    /\ hw.stat.txrdy
    /\ \E c \in Channel :
          /\ hw.regs.ENABLESET0[c]
          /\ hw.table[c] # EmptySlot
    /\ hw' = [Begin(hw) EXCEPT !.stat.txrdy = FALSE, !.stat.txidle = FALSE]
    /\ op' = "hardware"
    /\ arg' = "none"
    /\ ret' = "none"
    /\ UNCHANGED <<feature, DESCRIPTORS, taken, dma, usart, gpio, ws>>

\* usart.rx().read()
Receiver_read ==
    /\ Mainline
    /\ usart.state = "Enabled"
    /\ hw' = Receiver_read_hw(feature, Begin(hw))
    /\ op' = "Receiver::read"
    /\ arg' = "none"
    /\ ret' = Receiver_read_ret(feature, hw)
    /\ UNCHANGED <<feature, DESCRIPTORS, taken, dma, usart, gpio, ws>>

\* The receiver hardware takes a frame off the line.  With the receive register
\* free the frame lands there with its framing, parity and noise flags and
\* RXRDY rises; with the register still holding an unread frame the new one is
\* dropped and the overrun flag rises.
HwRxFrame ==
    /\ hw.clk["USART0"] /\ hw.regs.CFG.enable
    /\ \/ /\ ~hw.rx.rxrdy
          /\ \E d \in RxData, fe, pe, ns \in BOOLEAN :
                hw' = [Begin(hw) EXCEPT !.rx = [@ EXCEPT !.rxrdy = TRUE, !.rxdat = d,
                                                        !.framerr = fe, !.parityerr = pe,
                                                        !.rxnoise = ns]]
       \/ /\ hw.rx.rxrdy
          /\ hw' = [Begin(hw) EXCEPT !.rx.overrunint = TRUE]
    /\ op' = "hardware"
    /\ arg' = "none"
    /\ ret' = "none"
    /\ UNCHANGED <<feature, DESCRIPTORS, taken, dma, usart, gpio, ws>>

\* The line enters or leaves a break condition.
HwRxBreak ==
    /\ hw.clk["USART0"] /\ hw.regs.CFG.enable
    /\ hw' = [Begin(hw) EXCEPT !.rx.rxbrk = ~@]
    /\ op' = "hardware"
    /\ arg' = "none"
    /\ ret' = "none"
    /\ UNCHANGED <<feature, DESCRIPTORS, taken, dma, usart, gpio, ws>>

\* The words a trace shows written to TXDAT, in order.
TxWritten(log) ==
    LET w == SelectSeq(log, LAMBDA e : e.kind = "write" /\ e.reg = "TXDAT")
    IN  [i \in 1 .. Len(w) |-> w[i].val]

\* usart.tx().write_str(s): the call enters bwrite_all, or the flush at once
\* when s is empty.
WriteStr_call ==
    /\ Mainline
    /\ usart.state = "Enabled"
    /\ \E s \in Strs :
          /\ ws' = [pc |-> IF s = <<>> THEN "flushing" ELSE "writing",
                    s |-> s, sent |-> <<>>]
          /\ arg' = [s |-> s]
    /\ hw' = Begin(hw)
    /\ op' = "Transmitter::write_str"
    /\ ret' = [result |-> "pending"]
    /\ UNCHANGED <<feature, DESCRIPTORS, taken, dma, usart, gpio>>

\* write_str that returns as soon as the last byte is in TXDAT.
WriteStr_poll_no_flush ==
    /\ ws.pc \in {"writing", "flushing"}
    /\ IF ws.pc = "writing"
       THEN LET word == ws.s[Len(ws.sent) + 1]
                h1 == Transmitter_write_hw(Begin(hw), word)
                sent1 == ws.sent \o TxWritten(h1.log)
            IN  /\ hw' = h1
                /\ ws' = IF Len(sent1) = Len(ws.s) THEN NoCall
                         ELSE [ws EXCEPT !.sent = sent1]
                /\ ret' = [result |-> IF Len(sent1) = Len(ws.s) THEN "Ok" ELSE "pending"]
       ELSE /\ hw' = Begin(hw)
            /\ ws' = NoCall
            /\ ret' = [result |-> "Ok"]
    /\ op' = "Transmitter::write_str"
    /\ UNCHANGED <<feature, DESCRIPTORS, taken, dma, usart, gpio, arg>>

\* write_str, one turn of the loop it is blocked in.  In bwrite_all it is
\* block!(self.write(byte)) for the next byte of s: a WouldBlock leaves
\* everything as it is, an Ok moves on to the next byte, and after the last
\* one to the flush.  In block!(self.flush()) a WouldBlock leaves everything
\* as it is and an Ok returns Ok(()).
WriteStr_poll ==
    /\ ws.pc \in {"writing", "flushing"}
    /\ IF ws.pc = "writing"
       THEN LET word == ws.s[Len(ws.sent) + 1]
                h1 == Transmitter_write_hw(Begin(hw), word)
                sent1 == ws.sent \o TxWritten(h1.log)
            IN  /\ hw' = h1
                /\ ws' = [ws EXCEPT !.sent = sent1,
                                    !.pc = IF Len(sent1) = Len(ws.s)
                                           THEN "flushing" ELSE "writing"]
                /\ ret' = [result |-> "pending"]
       ELSE /\ hw' = Begin(hw)
            /\ ws' = IF Transmitter_flush(hw) = "Ok" THEN NoCall ELSE ws
            /\ ret' = [result |-> IF Transmitter_flush(hw) = "Ok" THEN "Ok" ELSE "pending"]
    /\ op' = "Transmitter::write_str"
    /\ UNCHANGED <<feature, DESCRIPTORS, taken, dma, usart, gpio, arg>>

\* dma.free(), on a handle in either typestate.
DMA_free ==
    /\ Mainline
    /\ dma.state \in {"Disabled", "Enabled"}
    /\ hw' = DMA_free_hw(Begin(hw))
    /\ dma' = DMA_free_handle(dma)
    /\ op' = "DMA::free"
    /\ arg' = [state |-> dma.state]
    /\ ret' = DMA_free_ret(dma)
    /\ UNCHANGED <<feature, DESCRIPTORS, taken, usart, gpio, ws>>

\* usart.free(), on a handle in either typestate.
USART_free ==
    /\ Mainline
    /\ usart.state \in {"Disabled", "Enabled"}
    /\ hw' = USART_free_hw(Begin(hw))
    /\ usart' = [state |-> "Freed"]
    /\ op' = "USART::free"
    /\ arg' = [state |-> usart.state]
    /\ ret' = USART_free_ret(usart)
    /\ UNCHANGED <<feature, DESCRIPTORS, taken, dma, gpio, ws>>

\* The raw peripherals free() has returned.
Raw == {p \in {"DMA0", "USART0"} :
          IF p = "DMA0" THEN dma.state = "Freed" ELSE usart.state = "Freed"}

\* syscon.enable_clock(&raw) / syscon.disable_clock(&raw), called by the
\* program itself on a raw peripheral it got from free().
Syscon_enable_clock ==
    /\ Mainline
    /\ \E p \in Raw :
          /\ hw' = enable_clock(Begin(hw), p)
          /\ arg' = [periph |-> p]
    /\ op' = "syscon::enable_clock"
    /\ ret' = "unit"
    /\ UNCHANGED <<feature, DESCRIPTORS, taken, dma, usart, gpio, ws>>

Syscon_disable_clock ==
    /\ Mainline
    /\ \E p \in Raw :
          /\ hw' = disable_clock(Begin(hw), p)
          /\ arg' = [periph |-> p]
    /\ op' = "syscon::disable_clock"
    /\ ret' = "unit"
    /\ UNCHANGED <<feature, DESCRIPTORS, taken, dma, usart, gpio, ws>>

\* examples/gpio_simple.rs, feature 845: p.GPIO.enable(&mut syscon.handle)
GPIO_enable ==
    /\ Mainline
    /\ gpio.state = "Disabled"
    /\ hw' = enable_clock(Begin(hw), "GPIO")
    /\ gpio' = [gpio EXCEPT !.state = "Enabled"]
    /\ op' = "GPIO::enable"
    /\ arg' = "none"
    /\ ret' = "Enabled"
    /\ UNCHANGED <<feature, DESCRIPTORS, taken, dma, usart, ws>>

\* examples/gpio_simple.rs: led.into_output_pin(token, Level::Low), with a
\* token of the enabled GPIO.
GPIO_led ==
    /\ Mainline
    /\ gpio.state = "Enabled"
    /\ gpio.led = "unconfigured"
    /\ gpio' = [gpio EXCEPT !.led = "Low"]
    /\ op' = "Pin::into_output_pin"
    /\ hw' = Begin(hw)
    /\ arg' = "none"
    /\ ret' = "unit"
    /\ UNCHANGED <<feature, DESCRIPTORS, taken, dma, usart, ws>>

Next ==
    \/ Take
    \/ DMA_enable
    \/ DMA_disable
    \/ Channel_start_transfer
    \/ USART_enable
    \/ USART_disable
    \/ USART_enable_interrupts
    \/ USART_interrupt_bit
    \/ Transmitter_write
    \/ Transmitter_flush_call
    \/ HwTxProgress
    \/ HwDmaFeed
    \/ GPIO_enable
    \/ GPIO_led

Spec == Init /\ [][Next]_vars

\* The lifecycle of the handles up to the escape hatch, and the clock control
\* calls the program makes itself on the raw peripherals it got back.
NextClock ==
    \/ Take
    \/ DMA_enable
    \/ DMA_disable
    \/ USART_enable
    \/ USART_disable
    \/ GPIO_enable
    \/ DMA_free
    \/ USART_free
    \/ Syscon_enable_clock
    \/ Syscon_disable_clock

SpecClock == Init /\ [][NextClock]_vars

\* The receive side of the USART: its lifecycle, read, and the line.
NextRx ==
    \/ Take
    \/ USART_enable
    \/ USART_disable
    \/ Receiver_read
    \/ HwRxFrame
    \/ HwRxBreak

SpecRx == Init /\ [][NextRx]_vars

\* The transmit side under write_str: the program is inside the call until it
\* returns, the transmitter hardware runs alongside.  The loop write_str is
\* blocked in keeps turning, and the hardware keeps emptying its registers
\* while it is clocked.
NextWriteStr ==
    \/ Take
    \/ USART_enable
    \/ USART_disable
    \/ Transmitter_write
    \/ WriteStr_call
    \/ WriteStr_poll
    \/ HwTxProgress

SpecWriteStr ==
    /\ Init
    /\ [][NextWriteStr]_vars
    /\ WF_vars(WriteStr_poll)
    /\ WF_vars(HwTxProgress)

\* ------------------------------------------------------------------ properties

\* A handle the program holds: handed out and not given back through free().
Live(h) == h.state \in {"Disabled", "Enabled"}

AllChannels(st) == \A c \in Channel : dma.channels[c] = st

Writes(log) == {i \in 1 .. Len(log) : log[i].kind = "write"}

\* C1: every execution of DMA::enable switches the DMA clock gate on, then
\* writes the descriptor table's address to SRAMBASE, then sets the
\* master-enable bit of CTRL, then transitions the channel set to Enabled, in
\* that order and with the clock on at both register writes.
C1_EnableOrder ==
    op = "DMA::enable" =>
        /\ Len(hw.log) = 4
        /\ hw.log[1].kind = "clock" /\ hw.log[1].periph = "DMA0" /\ hw.log[1].val = TRUE
        /\ hw.log[2].kind = "write" /\ hw.log[2].reg = "SRAMBASE"
        /\ hw.log[2].val = DESCRIPTORS /\ hw.log[2].clk
        /\ hw.log[3].kind = "write" /\ hw.log[3].reg = "CTRL"
        /\ hw.log[3].val.enable /\ hw.log[3].clk
        /\ hw.log[4].kind = "transition" /\ hw.log[4].reg = "channels"
        /\ hw.log[4].val = "Enabled"

\* A second enable has run: SRAMBASE already held the table's address.
C1_Witness ==
    /\ op = "DMA::enable"
    /\ Len(hw.log) = 4
    /\ hw.log[2].old = DESCRIPTORS

\* C2: in every reachable state each of the channels the controller owns has
\* the typestate of the controller itself.
C2_ChannelsTrackController ==
    \A c \in Channel : dma.channels[c] = dma.state

\* The controller has been enabled and disabled again, and so has every channel.
C2_Witness ==
    /\ op = "DMA::disable"
    /\ AllChannels("Disabled")
    /\ hw.regs.CTRL.enable

\* C3: while the controller is Enabled all channels are Enabled, SRAMBASE holds
\* the descriptor table's address and the master-enable bit is set; while it
\* is Disabled all channels are Disabled and the DMA clock gate is off.
C3_EnableDisablePost ==
    /\ dma.state = "Enabled" =>
          /\ AllChannels("Enabled")
          /\ hw.regs.SRAMBASE = DESCRIPTORS
          /\ hw.regs.CTRL.enable
    /\ dma.state = "Disabled" =>
          /\ AllChannels("Disabled")
          /\ ~hw.clk["DMA0"]
    /\ op = "DMA::enable" => dma.state = "Enabled"
    /\ op = "DMA::disable" => dma.state = "Disabled"

\* A disable has returned after an enable that had switched the clock on.
C3_Witness ==
    /\ op = "DMA::disable"
    /\ dma.state = "Disabled"
    /\ hw.log[1].old = TRUE
    /\ hw.regs.SRAMBASE = DESCRIPTORS

\* C4: every register write an operation performs happens while the clock gate
\* of the written peripheral is on.
C4_WritesClocked ==
    \A i \in Writes(hw.log) : hw.log[i].clk

\* A word has been written to TXDAT of the enabled USART.
C4_Witness ==
    /\ op = "Transmitter::write"
    /\ ret = "Ok"
    /\ \E i \in Writes(hw.log) : hw.log[i].reg = "TXDAT" /\ hw.log[i].periph = "USART0"

\* C5: the base address the controller stores is the address of the static
\* table in every state, every enable writes that address to SRAMBASE, the
\* register never holds another address, and every channel is Disabled once a
\* disable has returned.
C5_BaseAddressFixed ==
    /\ Live(dma) => dma.srambase = DESCRIPTORS
    /\ hw.regs.SRAMBASE \in {0, DESCRIPTORS}
    /\ op = "DMA::enable" =>
          \A i \in Writes(hw.log) :
              hw.log[i].reg = "SRAMBASE" => hw.log[i].val = dma.srambase
    /\ op = "DMA::disable" => AllChannels("Disabled")

\* Enable, disable, enable again: the second enable rewrote the same address.
C5_Witness ==
    /\ op = "DMA::enable"
    /\ hw.log[2].old = dma.srambase
    /\ hw.log[2].val = dma.srambase
    /\ dma.srambase = DESCRIPTORS

UsartEnabledOnlyOps ==
    {"USART::disable", "USART::enable_interrupts",
     "Receiver::enable_rxrdy_interrupt", "Receiver::disable_rxrdy_interrupt",
     "Transmitter::enable_txrdy_interrupt", "Transmitter::disable_txrdy_interrupt",
     "Transmitter::write", "Transmitter::flush"}

\* C6: each handle follows Disabled --enable--> Enabled --disable--> Disabled:
\* enable runs only on a Disabled handle and yields an Enabled one, disable
\* only on an Enabled handle and yields a Disabled one, the Enabled-only
\* operations of the USART run only on an Enabled handle and leave it Enabled,
\* and nothing else changes the typestate of a handle handed out.
C6_TypestateCycle ==
    [][ /\ op' = "DMA::enable" => dma.state = "Disabled" /\ dma'.state = "Enabled"
        /\ op' = "DMA::disable" => dma.state = "Enabled" /\ dma'.state = "Disabled"
        /\ op' = "USART::enable" => usart.state = "Disabled" /\ usart'.state = "Enabled"
        /\ op' = "USART::disable" => usart.state = "Enabled" /\ usart'.state = "Disabled"
        /\ op' \in UsartEnabledOnlyOps => usart.state = "Enabled"
        /\ op' \in UsartEnabledOnlyOps \ {"USART::disable"} => usart'.state = "Enabled"
        /\ (taken /\ dma'.state # dma.state) => op' \in {"DMA::enable", "DMA::disable", "DMA::free"}
        /\ (taken /\ usart'.state # usart.state) => op' \in {"USART::enable", "USART::disable", "USART::free"}
      ]_vars

\* The USART has gone round the cycle: a second enable found CFG.ENABLE
\* written by the first, while the DMA controller is in its own cycle.
C6_Witness ==
    /\ op = "USART::enable"
    /\ usart.state = "Enabled"
    /\ hw.log[3].reg = "CFG" /\ hw.log[3].old.enable
    /\ dma.state = "Disabled" /\ hw.regs.CTRL.enable

Fresh == op = "Peripherals::take" /\ ret = "Some"

\* C7 as stated: every peripheral handle (DMA, USART, GPIO) first obtained from
\* Peripherals is Disabled.
C7_FreshAllDisabled ==
    Fresh => dma.state = "Disabled" /\ usart.state = "Disabled" /\ gpio.state = "Disabled"

\* C7, amended: the DMA and USART handles first obtained from Peripherals are
\* Disabled, and so is GPIO built for the 845; built for the 82x, GPIO is handed
\* out Enabled with its clock on.  An Enabled-only operation of the DMA
\* controller or the USART has run only on a handle an enable has produced (the
\* enable's register writes are in place), and GPIO's only on an Enabled handle.
C7_FreshState ==
    /\ Fresh =>
          /\ dma.state = "Disabled" /\ AllChannels("Disabled")
          /\ usart.state = "Disabled"
          /\ gpio.state = (IF feature = "845" THEN "Disabled" ELSE "Enabled")
          /\ hw.regs = ResetRegs
          /\ \A p \in Periphs : hw.clk[p] <=> (p = "GPIO" /\ feature = "82x")
    /\ op \in UsartEnabledOnlyOps \ {"USART::disable"} =>
          usart.state = "Enabled" /\ hw.regs.CFG.enable /\ hw.clk["USART0"]
    /\ op = "Channel::start_transfer" =>
          dma.state = "Enabled" /\ hw.regs.CTRL.enable /\ hw.clk["DMA0"]
    /\ op = "Pin::into_output_pin" => gpio.state = "Enabled" /\ hw.clk["GPIO"]
    /\ (feature = "845" /\ gpio.state = "Enabled") => hw.clk["GPIO"]

\* Built for the 82x, the LED pin has been configured through the GPIO handle
\* as obtained from Peripherals, the DMA and USART handles still fresh.
C7_Witness ==
    /\ feature = "82x"
    /\ op = "Pin::into_output_pin"
    /\ gpio.state = "Enabled"
    /\ dma.state = "Disabled" /\ usart.state = "Disabled"
    /\ hw.regs = ResetRegs

\* C8 as stated: after a completed enable or disable the master-enable bit is
\* set if and only if the controller handle is Enabled.
C8_MasterEnableIffEnabled ==
    op \in {"DMA::enable", "DMA::disable"} =>
        (hw.regs.CTRL.enable <=> dma.state = "Enabled")

\* C8, amended: enable drives the clock gate and the master-enable bit, disable
\* the clock gate alone.  The clock gate is on exactly while the handle is
\* Enabled; the master-enable bit is set whenever the handle is Enabled and it
\* is still set, behind the gated clock, after a disable has returned.
C8_MasterEnableKept ==
    /\ Live(dma) => (hw.clk["DMA0"] <=> dma.state = "Enabled")
    /\ dma.state = "Enabled" => hw.regs.CTRL.enable
    /\ op = "DMA::disable" => hw.regs.CTRL.enable /\ ~hw.clk["DMA0"]

\* A disable has returned and left the master-enable bit set.
C8_Witness ==
    /\ op = "DMA::disable"
    /\ dma.state = "Disabled"
    /\ hw.regs.CTRL.enable
    /\ ~hw.clk["DMA0"]

\* C9: DMA::disable changes the DMA clock gate and the typestate of the
\* controller and of its channels, and nothing else: no register is written,
\* SRAMBASE and the stored base address are as they were.
C9_DisableFrame ==
    [][ op' = "DMA::disable" =>
          /\ hw' = [hw EXCEPT !.clk["DMA0"] = FALSE, !.log = hw'.log]
          /\ Writes(hw'.log) = {}
          /\ hw'.regs.SRAMBASE = hw.regs.SRAMBASE
          /\ dma' = [dma EXCEPT !.state = "Disabled",
                                !.channels = [c \in Channel |-> "Disabled"]]
          /\ dma'.srambase = dma.srambase
          /\ UNCHANGED <<feature, DESCRIPTORS, taken, usart, gpio>>
      ]_vars

\* A disable has returned with the table's address still in SRAMBASE.
C9_Witness ==
    /\ op = "DMA::disable"
    /\ hw.regs.SRAMBASE = dma.srambase
    /\ hw.regs.SRAMBASE # 0
    /\ ~hw.clk["DMA0"]

\* C10: a transfer requested on a channel while the destination's wait()
\* reports the previous operation in flight (TXIDLE clear) returns WouldBlock
\* in that one step, without waiting for the hardware, and leaves every
\* descriptor slot and channel-enable bit - its own among them - as it was.
C10_BusyTransferWouldBlock ==
    [][ (op' = "Channel::start_transfer" /\ ~hw.stat.txidle) =>
          /\ ret'.result = "WouldBlock"
          /\ hw'.table[ret'.channel] = hw.table[ret'.channel]
          /\ hw'.regs.ENABLESET0[ret'.channel] = hw.regs.ENABLESET0[ret'.channel]
          /\ hw' = Begin(hw)
      ]_vars

\* A transfer was refused on a channel whose slot is still empty and whose
\* enable bit is still clear, the transmitter being busy.
C10_Witness ==
    /\ op = "Channel::start_transfer"
    /\ ret.result = "WouldBlock"
    /\ ~hw.stat.txidle
    /\ hw.table[ret.channel] = EmptySlot
    /\ ~hw.regs.ENABLESET0[ret.channel]

\* C11: a transfer on channel i changes descriptor slot i and channel-enable
\* bit i and no other slot or bit, whatever the other channels hold; a transfer
\* that is accepted fills slot i with its source and destination and sets bit
\* i; nothing else of the hardware changes, and the controller keeps one
\* channel handle per slot index.
C11_TransferFrame ==
    /\ [](taken => DOMAIN dma.channels = Channel)
    /\ [][ op' = "Channel::start_transfer" =>
             /\ \A j \in Channel \ {arg'.channel} :
                   /\ hw'.table[j] = hw.table[j]
                   /\ hw'.regs.ENABLESET0[j] = hw.regs.ENABLESET0[j]
             /\ ret'.channel = arg'.channel
             /\ ret'.result = "Ok" =>
                   /\ hw'.table[arg'.channel] =
                         [source |-> arg'.source, dest |-> Transmitter_end_addr]
                   /\ hw'.regs.ENABLESET0[arg'.channel]
             /\ hw' = [hw EXCEPT !.table = hw'.table,
                                 !.regs.ENABLESET0 = hw'.regs.ENABLESET0,
                                 !.log = hw'.log]
             /\ dma' = dma
         ]_vars

\* A transfer has been accepted on a channel other than channel 0 while
\* another channel holds a transfer of its own.
C11_Witness ==
    /\ op = "Channel::start_transfer"
    /\ ret.result = "Ok"
    /\ arg.channel # 0
    /\ \E j \in Channel \ {arg.channel} :
          hw.table[j] # EmptySlot /\ hw.regs.ENABLESET0[j]

\* C12: of any sequence of Peripherals::take calls the first returns the
\* peripherals and every later one returns None and leaves the handles alone;
\* no handle exists before the first call and none is constructed after it, so
\* there is at most one DMA controller, bound once to the descriptor table.
C12_TakeOnce ==
    /\ [](~taken => /\ dma.state = "NotTaken"
                    /\ usart.state = "NotTaken"
                    /\ gpio.state = "NotTaken")
    /\ [][ /\ taken => taken'
           /\ op' = "Peripherals::take" =>
                 /\ taken'
                 /\ ret' = (IF taken THEN "None" ELSE "Some")
                 /\ taken => UNCHANGED <<dma, usart, gpio>>
                 /\ hw' = Begin(hw)
           /\ (dma.state = "NotTaken" /\ dma'.state # "NotTaken") =>
                 /\ op' = "Peripherals::take" /\ ret' = "Some"
                 /\ dma'.srambase = DESCRIPTORS
           /\ (taken /\ dma.state # "NotTaken") => dma'.state # "NotTaken"
         ]_vars

\* A later take has returned None while the controller handed out by the
\* first is enabled.
C12_Witness ==
    /\ op = "Peripherals::take"
    /\ ret = "None"
    /\ taken
    /\ dma.state = "Enabled"

\* C13: clock control is idempotent and never fails.  enable_clock(P) returns
\* unit and leaves the gate of P on whether it was off or already on, and
\* disable_clock(P) returns unit and leaves it off whether it was on or
\* already off; a second application changes nothing; the gates of the other
\* peripherals and every register are as they were.
C13_ClockIdempotent ==
    /\ [](\A p \in Periphs :
            /\ enable_clock(hw, p).clk[p]
            /\ ~disable_clock(hw, p).clk[p]
            /\ enable_clock(enable_clock(hw, p), p).clk = enable_clock(hw, p).clk
            /\ disable_clock(disable_clock(hw, p), p).clk = disable_clock(hw, p).clk)
    /\ [][ op' \in {"syscon::enable_clock", "syscon::disable_clock"} =>
             /\ ret' = "unit"
             /\ hw'.clk[arg'.periph] = (op' = "syscon::enable_clock")
             /\ \A q \in Periphs \ {arg'.periph} : hw'.clk[q] = hw.clk[q]
             /\ hw' = [hw EXCEPT !.clk = hw'.clk, !.log = hw'.log]
          ]_vars

\* A raw peripheral whose gate was already on has been enabled again, on a
\* system where another gate is off.
C13_Witness ==
    /\ op = "syscon::enable_clock"
    /\ hw.log[1].kind = "clock" /\ hw.log[1].old = TRUE
    /\ hw.clk[arg.periph]
    /\ \E q \in Periphs \ {arg.periph} : ~hw.clk[q]

\* C14: free() can be called on a DMA or USART handle in either typestate,
\* returns the raw peripheral, and has no hardware effect: every clock gate and
\* every register (SRAMBASE, CTRL, the USART registers), the descriptor table
\* and the status flags are as before the call, and nothing is written.  A
\* peripheral freed while Enabled stays clocked and enabled.
C14_FreeNoEffect ==
    /\ [](Live(dma) => ENABLED DMA_free)
    /\ [](Live(usart) => ENABLED USART_free)
    /\ [][ /\ op' = "DMA::free" =>
                /\ arg'.state = dma.state /\ Live(dma)
                /\ ret' = "DMA0" /\ dma'.state = "Freed"
                /\ usart' = usart
           /\ op' = "USART::free" =>
                /\ arg'.state = usart.state /\ Live(usart)
                /\ ret' = "USART0" /\ usart'.state = "Freed"
                /\ dma' = dma
           /\ op' \in {"DMA::free", "USART::free"} =>
                /\ hw'.log = <<>>
                /\ hw' = [hw EXCEPT !.log = <<>>]
          ]_vars

\* The USART has been freed while Enabled and is still clocked and enabled,
\* after the DMA controller was freed while Enabled and is still clocked, its
\* master-enable bit and table base in place.
C14_Witness ==
    /\ op = "USART::free" /\ arg.state = "Enabled"
    /\ hw.clk["USART0"] /\ hw.regs.CFG.enable
    /\ dma.state = "Freed"
    /\ hw.clk["DMA0"] /\ hw.regs.CTRL.enable /\ hw.regs.SRAMBASE = DESCRIPTORS

\* C15: Transmitter::write(word) does not block and does not retry.  With
\* TXRDY clear it returns WouldBlock and writes nothing, TXDAT included; with
\* TXRDY set it returns Ok after exactly one register write, of that word to
\* TXDAT.  Transmitter::flush returns WouldBlock exactly when TXIDLE is clear
\* and writes no register.
C15_WriteNonBlocking ==
    [][ /\ op' = "Transmitter::write" =>
            /\ ret' \in {"Ok", "WouldBlock"}
            /\ ret' = "WouldBlock" <=> ~hw.stat.txrdy
            /\ ret' = "WouldBlock" =>
                  /\ hw'.log = <<>>
                  /\ hw' = Begin(hw)
            /\ ret' = "Ok" =>
                  /\ hw'.log = <<Event("write", "USART0", "TXDAT", arg'.word,
                                       hw.regs.TXDAT, hw.clk["USART0"])>>
                  /\ hw'.regs = [hw.regs EXCEPT !.TXDAT = arg'.word]
        /\ op' = "Transmitter::flush" =>
            /\ ret' = (IF hw.stat.txidle THEN "Ok" ELSE "WouldBlock")
            /\ hw' = Begin(hw)
      ]_vars

\* A write has found the holding register still occupied by an earlier word
\* and has returned WouldBlock, the earlier word still in TXDAT.
C15_Witness ==
    /\ op = "Transmitter::write" /\ ret = "WouldBlock"
    /\ ~hw.stat.txrdy
    /\ hw.regs.TXDAT \in Bytes

\* C16: whenever USART::enable writes CFG, the USART is disabled (CFG.ENABLE is
\* clear in the value the write replaces) and it is not sending: the
\* transmitter is idle.  Stated for every call of enable, a re-enable after an
\* enable and a disable included.
C16_CfgWrittenWhileDisabled ==
    op = "USART::enable" =>
        \A i \in Writes(hw.log) :
            hw.log[i].reg = "CFG" =>
                /\ ~hw.log[i].old.enable
                /\ hw.stat.txidle

\* The RXDATSTAT reads in a trace.
Reads(log) == {i \in 1 .. Len(log) : log[i].kind = "read" /\ log[i].reg = "RXDATSTAT"}

\* C17: Receiver::read classifies the status in a fixed priority: break gives
\* WouldBlock; else overrun gives Overrun (82x); else RXRDY clear gives
\* WouldBlock; else framing error gives Framing, else parity error Parity,
\* else noise Noise, else Ok with the low 8 bits of the data.  Hence it
\* returns Ok exactly when RXRDY is set and none of the break, overrun,
\* framing, parity and noise flags is.
C17_ReadClassifies ==
    [][ op' = "Receiver::read" =>
          /\ ret'.result =
                (IF hw.rx.rxbrk THEN "WouldBlock"
                 ELSE IF feature = "82x" /\ hw.rx.overrunint THEN "Overrun"
                 ELSE IF ~hw.rx.rxrdy THEN "WouldBlock"
                 ELSE IF hw.rx.framerr THEN "Framing"
                 ELSE IF hw.rx.parityerr THEN "Parity"
                 ELSE IF hw.rx.rxnoise THEN "Noise"
                 ELSE "Ok")
          /\ ret'.result = "Ok" => ret'.byte = hw.rx.rxdat % U8
          /\ ret'.result = "Ok" <=>
                /\ hw.rx.rxrdy
                /\ ~hw.rx.rxbrk /\ ~hw.rx.overrunint
                /\ ~hw.rx.framerr /\ ~hw.rx.parityerr /\ ~hw.rx.rxnoise
      ]_vars

\* C18: Receiver::read reads RXDATSTAT at most once per call, and only when
\* RXRDY is set with no break and no overrun; a call that returns WouldBlock
\* or Overrun leaves the receive data and its flags as they were.
C18_ReadConsumesOnce ==
    [][ op' = "Receiver::read" =>
          /\ Cardinality(Reads(hw'.log)) <= 1
          /\ Reads(hw'.log) # {} =>
                hw.rx.rxrdy /\ ~hw.rx.rxbrk /\ ~hw.rx.overrunint
          /\ ret'.result \in {"WouldBlock", "Overrun"} =>
                /\ Reads(hw'.log) = {}
                /\ hw'.rx = hw.rx
      ]_vars

\* C19: with the hardware raising TXRDY after each byte and TXIDLE in the end,
\* write_str(s) on an enabled USART returns Ok eventually.  While it runs, what
\* it has written to TXDAT is a prefix of s, each turn adding at most the next
\* byte of s; it returns only out of the flush, with TXIDLE set and all of s
\* written, each byte once and in order.
C19_WriteStrCompletes ==
    /\ [](ws.pc # "idle" =>
            /\ usart.state = "Enabled"
            /\ Len(ws.sent) <= Len(ws.s)
            /\ ws.sent = SubSeq(ws.s, 1, Len(ws.sent))
            /\ ws.pc = "flushing" <=> ws.sent = ws.s)
    /\ [][ /\ (ws.pc # "idle" /\ op' = "Transmitter::write_str") =>
                /\ TxWritten(hw'.log) \in
                      {<<>>} \cup {<<ws.s[i]>> : i \in {Len(ws.sent) + 1} \cap DOMAIN ws.s}
                /\ ws'.pc # "idle" => ws'.sent = ws.sent \o TxWritten(hw'.log)
           /\ (ws.pc # "idle" /\ ws'.pc = "idle") =>
                /\ ws.pc = "flushing" /\ ws.sent = ws.s
                /\ hw.stat.txidle /\ hw'.stat.txidle
                /\ TxWritten(hw'.log) = <<>>
                /\ op' = "Transmitter::write_str" /\ ret'.result = "Ok"
           /\ (op' = "Transmitter::write_str" /\ ret'.result = "Ok") =>
                (ws.pc = "flushing" /\ ws'.pc = "idle")
          ]_vars
    /\ (ws.pc # "idle") ~> (ws.pc = "idle")

\* write_str has written a two-byte string of different bytes and is in the
\* flush, the transmitter still busy with the last byte.
C19_Witness ==
    /\ ws.pc = "flushing"
    /\ Len(ws.s) = MaxStrLen /\ ws.s[1] # ws.s[2]
    /\ ws.sent = ws.s
    /\ ~hw.stat.txidle
    /\ hw.regs.TXDAT = ws.s[Len(ws.s)]

\* C20: the peripherals share one Clock Control handle, and between completed
\* operations the clock gate of each peripheral the program holds a handle of
\* is on exactly when that handle is Enabled.  An enable or disable of one
\* peripheral changes neither the clock gate nor the typestate of another, and
\* no other operation changes a clock gate at all.
C20_ClockTracksHandles ==
    /\ [](/\ Live(dma) => (hw.clk["DMA0"] <=> dma.state = "Enabled")
          /\ Live(usart) => (hw.clk["USART0"] <=> usart.state = "Enabled")
          /\ Live(gpio) => (hw.clk["GPIO"] <=> gpio.state = "Enabled"))
    /\ [][ /\ op' \in {"DMA::enable", "DMA::disable"} =>
                /\ usart' = usart /\ gpio' = gpio
                /\ \A q \in Periphs \ {"DMA0"} : hw'.clk[q] = hw.clk[q]
           /\ op' \in {"USART::enable", "USART::disable"} =>
                /\ dma' = dma /\ gpio' = gpio
                /\ \A q \in Periphs \ {"USART0"} : hw'.clk[q] = hw.clk[q]
           /\ op' = "GPIO::enable" =>
                /\ dma' = dma /\ usart' = usart
                /\ \A q \in Periphs \ {"GPIO"} : hw'.clk[q] = hw.clk[q]
           /\ hw'.clk # hw.clk =>
                op' \in {"DMA::enable", "DMA::disable", "USART::enable",
                         "USART::disable", "GPIO::enable"}
          ]_vars

\* The USART has been disabled while the DMA controller stays Enabled and
\* clocked, with channels set up.
C20_Witness ==
    /\ op = "USART::disable"
    /\ usart.state = "Disabled" /\ ~hw.clk["USART0"]
    /\ dma.state = "Enabled" /\ hw.clk["DMA0"]
    /\ gpio.state = "Enabled" /\ hw.clk["GPIO"]

====
